---------------------------- MODULE Spec2Model ----------------------------
(***************************************************************************)
(* Model of request.py: the script reads GEMINI_API_KEY, constructs a      *)
(* genai client, prints a table header and one row per model yielded by    *)
(* client.models.list(), and reports a failure of the listing as an        *)
(* "Error: ..." line.                                                      *)
(*                                                                         *)
(* Text is modelled as a sequence of one-character strings, standard       *)
(* output as the sequence of lines written so far.  Python values are      *)
(* records tagged with their type; an object is a function from the names  *)
(* of the attributes it has to their values.                               *)
(***************************************************************************)
EXTENDS Integers, Sequences, FiniteSets

-----------------------------------------------------------------------------
(* Bounds of the model *)

\* Largest number of models the remote listing yields in one run.
MaxModels == 2

-----------------------------------------------------------------------------
(* Python values *)

PyNone == [type |-> "NoneType"]
PyStr(s) == [type |-> "str", val |-> s]
PyInt(n) == [type |-> "int", val |-> n]

\* No exception is being handled / has propagated.
NoExc == [type |-> "none"]
PyExc(t, m) == [type |-> t, msg |-> m]

\* Variant of Truthy that only tests for None ("api_key is None"); C1
\* must not hold with it.
Truthy_NoneOnly(v) == v.type # "NoneType"

\* bool(v): None, 0 and "" are false.
Truthy(v) ==
    CASE v.type = "NoneType" -> FALSE
      [] v.type = "int" -> v.val # 0
      [] v.type = "str" -> Len(v.val) > 0

\* os.environ.get(key): the value as a str, None when the variable is unset.
\* The environment is a set of <<name, value>> pairs.
EnvironGet(env, key) ==
    IF \E p \in env : p[1] = key
    THEN PyStr((CHOOSE p \in env : p[1] = key)[2])
    ELSE PyNone

\* getattr(obj, attr, default)
GetAttr(obj, attr, default) ==
    IF attr \in DOMAIN obj THEN obj[attr] ELSE default

-----------------------------------------------------------------------------
(* Formatting *)

NameWidth == 50
LimitWidth == 12
SeparatorWidth == 80

Digits == <<"0", "1", "2", "3", "4", "5", "6", "7", "8", "9">>

\* str(n) for n >= 0: the decimal digits, most significant first.
RECURSIVE DecStr(_)
DecStr(n) ==
    IF n < 10 THEN <<Digits[n + 1]>>
    ELSE DecStr(n \div 10) \o <<Digits[(n % 10) + 1]>>

\* The "," option of the format mini-language applied to a digit string:
\* a comma before every group of three digits counted from the right.
RECURSIVE GroupThousands(_)
GroupThousands(ds) ==
    IF Len(ds) <= 3 THEN ds
    ELSE GroupThousands(SubSeq(ds, 1, Len(ds) - 3)) \o <<",">>
         \o SubSeq(ds, Len(ds) - 2, Len(ds))

\* f"{n:,}" for an int n >= 0.
FormatComma(n) == GroupThousands(DecStr(n))

\* "c" * n
RECURSIVE Repeat(_, _)
Repeat(c, n) == IF n <= 0 THEN <<>> ELSE <<c>> \o Repeat(c, n - 1)

\* f"{s:<w}" for a str s: padded with spaces on the right up to width w,
\* never truncated.
LJust(s, w) == s \o Repeat(" ", w - Len(s))

ColumnSep == <<" ", "|", " ">>

\* f"{a:<50} | {b:<12} | {c:<12}"
TableLine(a, b, c) ==
    LJust(a, NameWidth) \o ColumnSep \o LJust(b, LimitWidth) \o ColumnSep
    \o LJust(c, LimitWidth)

\* Variant of LimitStr without the grouping option (f"{limit}"); C6 must
\* not hold with it.
LimitStr_Ungrouped(limit) ==
    IF Truthy(limit) THEN DecStr(limit.val) ELSE <<"-">>

\* f"{limit:,}" if limit else "-"
LimitStr(limit) ==
    IF Truthy(limit) THEN FormatComma(limit.val) ELSE <<"-">>


-----------------------------------------------------------------------------
(* Text the script and its collaborator produce *)

MissingKeyMsg ==
    <<"E", "r", "r", "o", "r", ":", " ", "G", "E", "M", "I", "N", "I", "_",
      "A", "P", "I", "_", "K", "E", "Y", " ", "e", "n", "v", "i", "r", "o",
      "n", "m", "e", "n", "t", " ", "v", "a", "r", "i", "a", "b", "l", "e",
      " ", "n", "o", "t", " ", "f", "o", "u", "n", "d", ".">>

ModelNameTitle ==
    <<"M", "o", "d", "e", "l", " ", "N", "a", "m", "e">>

InputLimitTitle ==
    <<"I", "n", "p", "u", "t", " ", "L", "i", "m", "i", "t">>

OutputLimitTitle ==
    <<"O", "u", "t", "p", "u", "t", " ", "L", "i", "m", "i", "t">>

ErrorPrefix ==
    <<"E", "r", "r", "o", "r", ":", " ">>

\* str() of the AttributeError raised by model.name on an object without
\* the attribute.
NoNameMsg ==
    <<"'", "M", "o", "d", "e", "l", "'", " ", "o", "b", "j", "e", "c", "t",
      " ", "h", "a", "s", " ", "n", "o", " ", "a", "t", "t", "r", "i", "b",
      "u", "t", "e", " ", "'", "n", "a", "m", "e", "'">>

\* str() of the TypeError raised by format(None, "<50").
NoneFormatMsg ==
    <<"u", "n", "s", "u", "p", "p", "o", "r", "t", "e", "d", " ", "f", "o",
      "r", "m", "a", "t", " ", "s", "t", "r", "i", "n", "g", " ", "p", "a",
      "s", "s", "e", "d", " ", "t", "o", " ", "N", "o", "n", "e", "T", "y",
      "p", "e", ".", "_", "_", "f", "o", "r", "m", "a", "t", "_", "_">>

\* print(f"{'Model Name':<50} | {'Input Limit':<12} | {'Output Limit':<12}")
HeaderText == TableLine(ModelNameTitle, InputLimitTitle, OutputLimitTitle)

\* "-" * 80
SeparatorText == Repeat("-", SeparatorWidth)

\* Variant of ErrorLines that leaves the description out; C2 must not
\* hold with it.
ErrorLines_NoDescription(exc) == << <<>>, ErrorPrefix >>

\* f"\nError: {e}" as the lines print() writes: an empty line, then the
\* message.
ErrorLines(exc) == << <<>>, ErrorPrefix \o exc.msg >>

-----------------------------------------------------------------------------
(* The loop body, lines 21-29 *)

in_limit(m) == GetAttr(m, "input_token_limit", PyInt(0))
out_limit(m) == GetAttr(m, "output_token_limit", PyInt(0))
in_str(m) == LimitStr(in_limit(m))
out_str(m) == LimitStr(out_limit(m))

\* Variant of RowResult that reads the name with a default, as the limits
\* are read (getattr(model, 'name', '')), and prints a row with an empty
\* name for a model without a usable name; C10 must not hold with it.
RowResult_DefaultName(m) ==
    [raised |-> FALSE,
     text |-> TableLine(IF "name" \in DOMAIN m /\ m.name.type = "str"
                        THEN m.name.val ELSE <<>>,
                        in_str(m), out_str(m))]

\* Evaluation of f"{model.name:<50} | {in_str:<12} | {out_str:<12}": the
\* attribute access raises AttributeError when the object has no name, and
\* format(None, "<50") raises TypeError; otherwise the row text.
RowResult(m) ==
    IF "name" \notin DOMAIN m
    THEN [raised |-> TRUE, exc |-> PyExc("AttributeError", NoNameMsg)]
    ELSE IF m.name = PyNone
    THEN [raised |-> TRUE, exc |-> PyExc("TypeError", NoneFormatMsg)]
    ELSE [raised |-> FALSE,
          text |-> TableLine(m.name.val, in_str(m), out_str(m))]

-----------------------------------------------------------------------------
(* Inputs: the environment and the behaviour of the collaborator *)

KeyName == "GEMINI_API_KEY"

\* Values of GEMINI_API_KEY: unset, empty, and two non-empty keys.
Environments ==
    { {},
      { <<KeyName, <<>> >> },
      { <<KeyName, <<"k">> >> },
      { <<KeyName, <<"A", "I", "z", "a">> >> } }

ModelA ==
    <<"m", "o", "d", "e", "l", "-", "a">>

ModelB ==
    <<"m", "o", "d", "e", "l", "-", "b">>

AuthMsg ==
    <<"4", "0", "1", " ", "U", "N", "A", "U", "T", "H", "E", "N", "T", "I",
      "C", "A", "T", "E", "D">>

NetMsg ==
    <<"C", "o", "n", "n", "e", "c", "t", "i", "o", "n", " ", "r", "e", "s",
      "e", "t">>

\* Exceptions (subclasses of Exception) the client library raises.
RemoteErrors ==
    { PyExc("ClientError", AuthMsg), PyExc("ConnectError", NetMsg) }

\* Marks an attribute the object does not have.
Absent == [type |-> "absent"]

\* The object with the given attribute values, without the Absent ones.
ModelObject(n, i, o) ==
    LET full == [name |-> n, input_token_limit |-> i,
                 output_token_limit |-> o]
    IN  [a \in {b \in DOMAIN full : full[b] # Absent} |-> full[a]]

NameValues == {Absent, PyNone, PyStr(ModelA), PyStr(ModelB)}

LimitValues == {Absent, PyNone, PyInt(0), PyInt(32000)}

\* Objects the listing yields in the runs of Spec.
Models ==
    { ModelObject(n, i, o) : n \in NameValues, i \in LimitValues,
                             o \in LimitValues }

-----------------------------------------------------------------------------
(* State *)

VARIABLES
    pc,           \* the statement the script executes next
    environ,      \* os.environ, restricted to GEMINI_API_KEY
    api_key,      \* module variable api_key
    client,       \* module variable client: TRUE once constructed
    model,        \* loop variable
    e,            \* exception bound by the except clause, NoExc if none
    stdout,       \* lines written to standard output
    calls,        \* calls made to the collaborator, in order
    yielded,      \* objects the listing has yielded, in order
    uncaught,     \* exception that left the script, NoExc if none
    raised,       \* history: the exceptions raised, with the statement
    exit_status   \* exit status of the process, "running" until it ends

vars ==
    <<pc, environ, api_key, client, model, e, stdout, calls, yielded,
      uncaught, raised, exit_status>>

Init ==
    /\ pc = "getenv"
    /\ environ \in Environments
    /\ api_key = PyNone
    /\ client = FALSE
    /\ model = PyNone
    /\ e = NoExc
    /\ stdout = <<>>
    /\ calls = <<>>
    /\ yielded = <<>>
    /\ uncaught = NoExc
    /\ raised = <<>>
    /\ exit_status = "running"

\* print(line)
WriteLine(line) == stdout' = Append(stdout, line)

-----------------------------------------------------------------------------
(* Statements *)

\* line 5: api_key = os.environ.get("GEMINI_API_KEY")
GetEnv ==
    /\ pc = "getenv"
    /\ api_key' = EnvironGet(environ, KeyName)
    /\ pc' = "check"
    /\ UNCHANGED <<raised, environ, client, model, e, stdout, calls, yielded,
                   uncaught, exit_status>>

\* Variant of CheckKey with the test inverted ("if api_key:"); C7 must not
\* hold with it.
CheckKey_Inverted ==
    /\ pc = "check"
    /\ pc' = IF Truthy(api_key) THEN "print_missing" ELSE "construct"
    /\ UNCHANGED <<raised, environ, api_key, client, model, e, stdout, calls,
                   yielded, uncaught, exit_status>>

\* line 6: if not api_key
CheckKey ==
    /\ pc = "check"
    /\ pc' = IF ~Truthy(api_key) THEN "print_missing" ELSE "construct"
    /\ UNCHANGED <<raised, environ, api_key, client, model, e, stdout, calls,
                   yielded, uncaught, exit_status>>

\* line 7: print("Error: GEMINI_API_KEY environment variable not found.")
PrintMissingKey ==
    /\ pc = "print_missing"
    /\ WriteLine(MissingKeyMsg)
    /\ pc' = "exit"
    /\ UNCHANGED <<raised, environ, api_key, client, model, e, calls, yielded,
                   uncaught, exit_status>>

\* Variant of Exit with a failure status (exit(1)); C8 must not hold with
\* it.
Exit_Failure ==
    /\ pc = "exit"
    /\ pc' = "done"
    /\ exit_status' = 1
    /\ UNCHANGED <<raised, environ, api_key, client, model, e, stdout, calls,
                   yielded, uncaught>>

\* line 8: exit() raises SystemExit(None); the process ends with status 0.
Exit ==
    /\ pc = "exit"
    /\ pc' = "done"
    /\ exit_status' = 0
    /\ UNCHANGED <<raised, environ, api_key, client, model, e, stdout, calls,
                   yielded, uncaught>>

\* line 10: client = genai.Client(api_key=api_key), the constructor returns.
ConstructClient ==
    /\ pc = "construct"
    /\ calls' = Append(calls, "Client")
    /\ client' = TRUE
    /\ pc' = "print_header"
    /\ UNCHANGED <<raised, environ, api_key, model, e, stdout, yielded,
                   uncaught, exit_status>>

\* line 10: the constructor raises.  The statement is outside the try
\* block, so the exception leaves the script: the interpreter prints a
\* traceback to standard error and the process ends with status 1.
ConstructClientRaises ==
    /\ pc = "construct"
    /\ calls' = Append(calls, "Client")
    /\ \E exc \in RemoteErrors :
         /\ uncaught' = exc
         /\ raised' = Append(raised, [stmt |-> "construct", exc |-> exc])
    /\ exit_status' = 1
    /\ pc' = "done"
    /\ UNCHANGED <<environ, api_key, client, model, e, stdout, yielded>>

\* line 12: print the header
PrintHeader ==
    /\ pc = "print_header"
    /\ WriteLine(HeaderText)
    /\ pc' = "print_separator"
    /\ UNCHANGED <<raised, environ, api_key, client, model, e, calls, yielded,
                   uncaught, exit_status>>

\* line 13: print("-" * 80); the try block is entered next.
PrintSeparator ==
    /\ pc = "print_separator"
    /\ WriteLine(SeparatorText)
    /\ pc' = "list"
    /\ UNCHANGED <<raised, environ, api_key, client, model, e, calls, yielded,
                   uncaught, exit_status>>

\* line 17: client.models.list() returns the iterable.
ListModels ==
    /\ pc = "list"
    /\ calls' = Append(calls, "list")
    /\ pc' = "next"
    /\ UNCHANGED <<raised, environ, api_key, client, model, e, stdout, yielded,
                   uncaught, exit_status>>

\* line 17: client.models.list() raises; line 31 binds the exception.
ListModelsRaises ==
    /\ pc = "list"
    /\ calls' = Append(calls, "list")
    /\ \E exc \in RemoteErrors :
         /\ e' = exc
         /\ raised' = Append(raised, [stmt |-> "list", exc |-> exc])
    /\ pc' = "except"
    /\ UNCHANGED <<environ, api_key, client, model, stdout, yielded,
                   uncaught, exit_status>>

\* line 17: the for statement takes the next object from the iterable.
NextModel ==
    /\ pc = "next"
    /\ Len(yielded) < MaxModels
    /\ calls' = Append(calls, "next")
    /\ \E m \in Models :
         /\ model' = m
         /\ yielded' = Append(yielded, m)
    /\ pc' = "body"
    /\ UNCHANGED <<raised, environ, api_key, client, e, stdout, uncaught,
                   exit_status>>

\* line 17: the iterable is exhausted; the loop and the try block end.
NextModelStops ==
    /\ pc = "next"
    /\ calls' = Append(calls, "next")
    /\ pc' = "end"
    /\ UNCHANGED <<raised, environ, api_key, client, model, e, stdout, yielded,
                   uncaught, exit_status>>

\* line 17: fetching the next object raises; line 31 binds the exception.
NextModelRaises ==
    /\ pc = "next"
    /\ calls' = Append(calls, "next")
    /\ \E exc \in RemoteErrors :
         /\ e' = exc
         /\ raised' = Append(raised, [stmt |-> "next", exc |-> exc])
    /\ pc' = "except"
    /\ UNCHANGED <<environ, api_key, client, model, stdout, yielded,
                   uncaught, exit_status>>

\* Variant of PrintRow with the header printed inside the loop; C4 must
\* not hold with it.
PrintRow_WithHeader ==
    /\ pc = "body"
    /\ ~RowResult(model).raised
    /\ stdout' = stdout \o <<HeaderText, RowResult(model).text>>
    /\ pc' = "next"
    /\ UNCHANGED <<raised, environ, api_key, client, model, e, calls, yielded,
                   uncaught, exit_status>>

\* Variant of PrintRow that puts the newest row on top of the table; C5
\* must not hold with it.
PrintRow_NewestFirst ==
    /\ pc = "body"
    /\ ~RowResult(model).raised
    /\ stdout' = SubSeq(stdout, 1, 2) \o <<RowResult(model).text>>
                  \o SubSeq(stdout, 3, Len(stdout))
    /\ pc' = "next"
    /\ UNCHANGED <<raised, environ, api_key, client, model, e, calls, yielded,
                   uncaught, exit_status>>

\* lines 21-29: the row of the current model is formatted and printed.
PrintRow ==
    /\ pc = "body"
    /\ ~RowResult(model).raised
    /\ WriteLine(RowResult(model).text)
    /\ pc' = "next"
    /\ UNCHANGED <<raised, environ, api_key, client, model, e, calls, yielded,
                   uncaught, exit_status>>

\* lines 21-29: formatting the row raises; line 31 binds the exception.
PrintRowRaises ==
    /\ pc = "body"
    /\ RowResult(model).raised
    /\ e' = RowResult(model).exc
    /\ raised' = Append(raised, [stmt |-> "row",
                                  exc |-> RowResult(model).exc])
    /\ pc' = "except"
    /\ UNCHANGED <<environ, api_key, client, model, stdout, calls, yielded,
                   uncaught, exit_status>>

\* Variant of PrintError that discards the rows printed so far; C3 must
\* not hold with it.
PrintError_Rollback ==
    /\ pc = "except"
    /\ stdout' = SubSeq(stdout, 1, 2) \o ErrorLines(e)
    /\ pc' = "end"
    /\ UNCHANGED <<raised, environ, api_key, client, model, e, calls, yielded,
                   uncaught, exit_status>>

\* Variant of PrintError that requests the listing once more after the
\* first failure; C9 must not hold with it.
PrintError_Retry ==
    /\ pc = "except"
    /\ stdout' = stdout \o ErrorLines(e)
    /\ pc' = IF Len(raised) < 2 THEN "list" ELSE "end"
    /\ UNCHANGED <<raised, environ, api_key, client, model, e, calls, yielded,
                   uncaught, exit_status>>

\* line 32: print(f"\nError: {e}")
PrintError ==
    /\ pc = "except"
    /\ stdout' = stdout \o ErrorLines(e)
    /\ pc' = "end"
    /\ UNCHANGED <<raised, environ, api_key, client, model, e, calls, yielded,
                   uncaught, exit_status>>

\* The end of the script is reached; the process ends with status 0.
EndOfScript ==
    /\ pc = "end"
    /\ pc' = "done"
    /\ exit_status' = 0
    /\ UNCHANGED <<raised, environ, api_key, client, model, e, stdout, calls,
                   yielded, uncaught>>

Next ==
    \/ GetEnv
    \/ CheckKey
    \/ PrintMissingKey
    \/ Exit
    \/ ConstructClient
    \/ ConstructClientRaises
    \/ PrintHeader
    \/ PrintSeparator
    \/ ListModels
    \/ ListModelsRaises
    \/ NextModel
    \/ NextModelStops
    \/ NextModelRaises
    \/ PrintRow
    \/ PrintRowRaises
    \/ PrintError
    \/ EndOfScript

Spec == Init /\ [][Next]_vars

-----------------------------------------------------------------------------
(* The loop body on its own, over a wider range of limits *)

LimitInts ==
    {0, 1, 9, 10, 99, 100, 999, 1000, 1001, 8000, 8192, 9999, 10000, 32000,
     99999, 100000, 999999, 1000000, 1048576, 2097152, 999999999}

WideLimitValues == {Absent, PyNone} \cup {PyInt(n) : n \in LimitInts}

FormatModels ==
    { ModelObject(n, i, o) : n \in {Absent, PyStr(ModelA)},
                             i \in WideLimitValues, o \in WideLimitValues }

\* The script has fetched its first model and is about to run the loop
\* body on it.
InitBody ==
    /\ pc = "body"
    /\ environ = { <<KeyName, <<"k">> >> }
    /\ api_key = PyStr(<<"k">>)
    /\ client = TRUE
    /\ model \in FormatModels
    /\ yielded = <<model>>
    /\ e = NoExc
    /\ stdout = <<HeaderText, SeparatorText>>
    /\ calls = <<"Client", "list", "next">>
    /\ uncaught = NoExc
    /\ raised = <<>>
    /\ exit_status = "running"

NextBody ==
    \/ PrintRow
    \/ PrintRowRaises

FormatSpec == InitBody /\ [][NextBody]_vars

-----------------------------------------------------------------------------
(* Reading the output back *)

\* The header line, character by character.
HeaderLine ==
    <<"M", "o", "d", "e", "l", " ", "N", "a", "m", "e", " ", " ", " ", " ",
      " ", " ", " ", " ", " ", " ", " ", " ", " ", " ", " ", " ", " ", " ",
      " ", " ", " ", " ", " ", " ", " ", " ", " ", " ", " ", " ", " ", " ",
      " ", " ", " ", " ", " ", " ", " ", " ", " ", "|", " ", "I", "n", "p",
      "u", "t", " ", "L", "i", "m", "i", "t", " ", " ", "|", " ", "O", "u",
      "t", "p", "u", "t", " ", "L", "i", "m", "i", "t">>

IsSeparatorLine(line) ==
    /\ Len(line) = 80
    /\ \A i \in 1..Len(line) : line[i] = "-"

\* The line begins with the given text.
StartsWith(line, prefix) ==
    /\ Len(line) >= Len(prefix)
    /\ SubSeq(line, 1, Len(prefix)) = prefix

IsErrorLine(line) == StartsWith(line, ErrorPrefix)

\* The line without the spaces at its end.
RECURSIVE RStrip(_)
RStrip(t) ==
    IF t # <<>> /\ t[Len(t)] = " " THEN RStrip(SubSeq(t, 1, Len(t) - 1))
    ELSE t

\* The three columns of a row, read from the right end of the line: the
\* last 12 characters, the 12 characters before the " | " in front of
\* them, and everything before the " | " in front of those.
OutField(row) == RStrip(SubSeq(row, Len(row) - 11, Len(row)))
InField(row) == RStrip(SubSeq(row, Len(row) - 26, Len(row) - 15))
NameField(row) == RStrip(SubSeq(row, 1, Len(row) - 30))

\* GEMINI_API_KEY is unset or set to the empty string.
KeyMissing == \A p \in environ : p[1] = KeyName => p[2] = <<>>

\* The object has a name that is a string.
HasName(m) == "name" \in DOMAIN m /\ m.name.type = "str"

\* Number of entries of the call log equal to c.
CallCount(c) == Cardinality({i \in 1..Len(calls) : calls[i] = c})

\* Statements at which an exception was raised in this run.
RaisedAt == {raised[i].stmt : i \in 1..Len(raised)}

-----------------------------------------------------------------------------
(* Claims *)

\* C1: when GEMINI_API_KEY is unset or empty the whole output of the run
\* is the one line "Error: GEMINI_API_KEY environment variable not found.":
\* no header, separator or row is ever printed, the client is never
\* constructed and the listing is never requested.
C1_MissingKey ==
    KeyMissing =>
        /\ calls = <<>>
        /\ client = FALSE
        /\ stdout \in {<<>>, <<MissingKeyMsg>>}
        /\ (pc = "done" => stdout = <<MissingKeyMsg>>)

C1_Witness ==
    /\ pc = "done"
    /\ environ = { <<KeyName, <<>> >> }
    /\ stdout = <<MissingKeyMsg>>

C3_RowsRemain ==
    (pc = "done" /\ RaisedAt \cap {"list", "next"} # {}) =>
        /\ Len(stdout) = Len(yielded) + 4
        /\ stdout[1] = HeaderLine
        /\ IsSeparatorLine(stdout[2])
        /\ \A i \in 1..Len(yielded) :
             NameField(stdout[2 + i]) = yielded[i].name.val
        /\ stdout[Len(stdout) - 1] = <<>>
        /\ stdout[Len(stdout)] = ErrorPrefix \o raised[1].exc.msg
        /\ uncaught = NoExc
        /\ exit_status = 0

C3_Witness ==
    /\ pc = "done"
    /\ RaisedAt = {"next"}
    /\ Len(yielded) = 2
    /\ Len(stdout) = 6
    /\ stdout[6] = ErrorPrefix \o NetMsg

\* The header line is the first line of the output and occurs nowhere
\* else; the separator is the second line and occurs nowhere else.
HeaderAndSeparatorOnTop ==
    \A i \in 1..Len(stdout) :
        /\ stdout[i] = HeaderLine <=> i = 1
        /\ IsSeparatorLine(stdout[i]) <=> i = 2

\* C4 as stated: in every run with a non-empty credential the header and
\* the separator are each printed exactly once, before any row.
C4_HeaderInEveryRun ==
    (~KeyMissing /\ pc = "done") =>
        /\ Len(stdout) >= 2
        /\ HeaderAndSeparatorOnTop

\* C4 amended: in every run with a non-empty credential in which client
\* construction does not raise, the header and the separator are each
\* printed exactly once, before any row, however many models the listing
\* yields; when the listing ends without yielding a model the output is
\* exactly the header followed by the separator.  (When construction
\* raises, neither line is printed.)
C4_HeaderOnce ==
    ~KeyMissing =>
        /\ Len(stdout) > 0 => stdout[1] = HeaderLine
        /\ Len(stdout) > 1 => HeaderAndSeparatorOnTop
        /\ (pc \in {"list", "next", "body", "except", "end"} \/
            (pc = "done" /\ uncaught = NoExc)) => Len(stdout) >= 2
        /\ (pc = "done" /\ uncaught # NoExc) => stdout = <<>>
        /\ (pc = "done" /\ raised = <<>> /\ yielded = <<>>) =>
               /\ Len(stdout) = 2
               /\ stdout[1] = HeaderLine
               /\ IsSeparatorLine(stdout[2])

C4_Witness ==
    /\ pc = "done"
    /\ ~KeyMissing
    /\ raised = <<>>
    /\ yielded = <<>>
    /\ Len(stdout) = 2

\* C5: on a run where the listing completes without error there is one
\* row per yielded model, in the order of the listing: row i carries the
\* name of the i-th model yielded.
C5_RowOrder ==
    (pc = "done" /\ ~KeyMissing /\ raised = <<>>) =>
        /\ Len(stdout) = 2 + Len(yielded)
        /\ \A i \in 1..Len(yielded) :
             /\ HasName(yielded[i])
             /\ NameField(stdout[2 + i]) = yielded[i].name.val

C5_Witness ==
    /\ pc = "done"
    /\ raised = <<>>
    /\ Len(yielded) = 2
    /\ yielded[1].name = PyStr(ModelB)
    /\ yielded[2].name = PyStr(ModelA)
    /\ NameField(stdout[3]) = ModelB
    /\ NameField(stdout[4]) = ModelA

\* C7 as stated: with a non-empty credential the missing-credential line
\* is never printed, the client is constructed and the listing call is
\* issued.
C7_ListingIssued ==
    ~KeyMissing =>
        /\ \A i \in 1..Len(stdout) : stdout[i] # MissingKeyMsg
        /\ pc = "done" => calls[1] = "Client" /\ CallCount("list") = 1

\* C7 amended: with a non-empty credential the missing-credential line is
\* never printed and client construction is attempted; the listing call is
\* issued after it unless the construction raises, in which case the
\* listing is never requested.
C7_ConstructThenList ==
    ~KeyMissing =>
        /\ \A i \in 1..Len(stdout) : stdout[i] # MissingKeyMsg
        /\ pc = "done" =>
             /\ calls[1] = "Client"
             /\ IF "construct" \in RaisedAt
                THEN calls = <<"Client">>
                ELSE Len(calls) >= 2 /\ calls[2] = "list"

C7_Witness ==
    /\ pc = "done"
    /\ environ = { <<KeyName, <<"k">> >> }
    /\ raised = <<>>
    /\ Len(calls) >= 2
    /\ calls[2] = "list"

ErrorPrinted == \E i \in 1..Len(stdout) : IsErrorLine(stdout[i])

\* C9: the client is constructed at most once and the listing is requested
\* at most once; once an error message of either kind has been printed, no
\* further call is made to the collaborator and nothing more is printed.
C9_NoRetry ==
    /\ [](CallCount("Client") <= 1 /\ CallCount("list") <= 1)
    /\ [][ErrorPrinted => calls' = calls /\ stdout' = stdout]_vars

C9_Witness ==
    /\ pc = "done"
    /\ ErrorPrinted
    /\ Len(yielded) = 2
    /\ CallCount("Client") = 1
    /\ CallCount("list") = 1

\* C10: a yielded model without a usable name (attribute missing, or not a
\* string) ends the listing: it is the last model fetched, it gets no row,
\* the rows of the models before it stay, and the output ends with an
\* empty line and the "Error: ..." line of the exception its name raised.
\* A missing limit attribute never does this: every yielded model with a
\* name gets its row.
C10_BadNameAborts ==
    /\ \A i \in 1..Len(yielded) : ~HasName(yielded[i]) => i = Len(yielded)
    /\ "row" \in RaisedAt <=>
          (pc # "body" /\ yielded # <<>> /\ ~HasName(yielded[Len(yielded)]))
    /\ pc \in {"next", "end", "done"} /\ ~KeyMissing /\ uncaught = NoExc =>
          LET named == {i \in 1..Len(yielded) : HasName(yielded[i])}
              k == Cardinality(named)
          IN  /\ \A i \in named :
                   NameField(stdout[2 + i]) = yielded[i].name.val
              /\ Len(stdout) = 2 + k + (IF raised # <<>> THEN 2 ELSE 0)
              /\ "row" \in RaisedAt =>
                   /\ k = Len(yielded) - 1
                   /\ stdout[Len(stdout) - 1] = <<>>
                   /\ stdout[Len(stdout)] \in
                        { ErrorPrefix \o NoNameMsg,
                          ErrorPrefix \o NoneFormatMsg }

C10_Witness ==
    /\ pc = "done"
    /\ Len(yielded) = 2
    /\ DOMAIN yielded[1] = {"name"}
    /\ "name" \notin DOMAIN yielded[2]
    /\ Len(stdout) = 5
    /\ NameField(stdout[3]) = yielded[1].name.val
    /\ stdout[5] = ErrorPrefix \o NoNameMsg

\* Value of a decimal digit character.
DigitValue(c) ==
    CASE c = "0" -> 0 [] c = "1" -> 1 [] c = "2" -> 2 [] c = "3" -> 3
      [] c = "4" -> 4 [] c = "5" -> 5 [] c = "6" -> 6 [] c = "7" -> 7
      [] c = "8" -> 8 [] c = "9" -> 9

\* The number written by the digits of t, its commas ignored.
RECURSIVE NumberRead(_)
NumberRead(t) ==
    IF t = <<>> THEN 0
    ELSE LET c == t[Len(t)]
             rest == SubSeq(t, 1, Len(t) - 1)
         IN  IF c = "," THEN NumberRead(rest)
             ELSE 10 * NumberRead(rest) + DigitValue(c)

\* t is the thousands-grouped decimal string of v > 0: decimal digits
\* without a leading zero that read as v, with a comma exactly in front of
\* every group of three digits counted from the right end.
IsGroupedDecimal(t, v) ==
    /\ Len(t) >= 1
    /\ Len(t) % 4 # 0
    /\ \A i \in 1..Len(t) :
         IF (Len(t) - i + 1) % 4 = 0 THEN t[i] = ","
         ELSE t[i] \in {"0", "1", "2", "3", "4", "5", "6", "7", "8", "9"}
    /\ t[1] # "0"
    /\ NumberRead(t) = v

\* What the claim requires of the field printed for attribute a of m.
FieldShows(t, m, a) ==
    IF a \notin DOMAIN m \/ m[a] = PyNone \/ m[a] = PyInt(0)
    THEN t = <<"-">>
    ELSE /\ IsGroupedDecimal(t, m[a].val)
         /\ m[a].val = 1000000 =>
              t = <<"1", ",", "0", "0", "0", ",", "0", "0", "0">>

\* C6: in the row of a model, each limit field is "-" when the attribute
\* is missing, None or 0, and the thousands-grouped decimal string of the
\* value when it is a positive integer; each field depends on its own
\* attribute only.
C6_LimitFields ==
    (pc = "next" /\ Len(stdout) > 2) =>
        LET row == stdout[Len(stdout)]
        IN  /\ FieldShows(InField(row), model, "input_token_limit")
            /\ FieldShows(OutField(row), model, "output_token_limit")

C6_Witness ==
    /\ pc = "next"
    /\ model = ModelObject(PyStr(ModelA), PyInt(1000000), Absent)
    /\ InField(stdout[Len(stdout)]) =
           <<"1", ",", "0", "0", "0", ",", "0", "0", "0">>
    /\ OutField(stdout[Len(stdout)]) = <<"-">>

=============================================================================
